---- MODULE Spec2Model ----
(***************************************************************************)
(* Model of to-css-variables (src/src/index.ts): camelToKebabCase,         *)
(* toCSSVariables and flattenVariables.                                    *)
(*                                                                         *)
(* A JavaScript string is a sequence of one-character strings.  A          *)
(* JavaScript object is a node of `heap` (a sequence of nodes, the index   *)
(* being the object's identity); its own enumerable properties are the     *)
(* sequence `ents`, in enumeration order.                                  *)
(***************************************************************************)
EXTENDS Integers, Sequences, FiniteSets, TLC

VARIABLES
  heap,         \* the JavaScript heap: object identity -> object
  obj,          \* the identity of the tree passed as `obj`
  cssOptions,   \* the `options` passed to toCSSVariables
  flatOptions,  \* the `options` passed to flattenVariables
  str,          \* the string passed to camelToKebabCase
  kebab,        \* what camelToKebabCase returned
  declaration,  \* toCSSVariables(...).declaration
  variables,    \* toCSSVariables(...).variables (an object identity, 0 before the call)
  raw,          \* toCSSVariables(...).raw (an object identity, 0 before the call)
  flattened,    \* what flattenVariables returned
  done          \* the functions that have returned

vars == <<heap, obj, cssOptions, flatOptions, str, kebab, declaration, variables, raw,
          flattened, done>>

\* ------------------------------------------------------------------ bounds

\* Longest identifier handed to camelToKebabCase on its own.
MaxLen == 4
\* Most properties (at all depths together) of a tree handed to toCSSVariables.
MaxProps == 3
\* Most properties of a tree handed to flattenVariables.
MaxFlatProps == 3
\* Most properties of a tree handed to both functions.
MaxBothProps == 3

\* ------------------------------------------------------------- characters

LowerSeq == <<"a","b","c","d","e","f","g","h","i","j","k","l","m",
              "n","o","p","q","r","s","t","u","v","w","x","y","z">>
UpperSeq == <<"A","B","C","D","E","F","G","H","I","J","K","L","M",
              "N","O","P","Q","R","S","T","U","V","W","X","Y","Z">>
\* [a-z]
Lower == {LowerSeq[i] : i \in 1..Len(LowerSeq)}
\* [A-Z]
Upper == {UpperSeq[i] : i \in 1..Len(UpperSeq)}
\* \d
Digit == {"0","1","2","3","4","5","6","7","8","9"}
\* [a-zA-Z]
Letter == Lower \cup Upper
\* \s (the members that the identifiers of the model use)
Space == {" ", "\t"}

\* String.prototype.toLowerCase on one character.
LowerChar(c) ==
  IF c \in Upper
    THEN LowerSeq[CHOOSE i \in 1..Len(UpperSeq) : UpperSeq[i] = c]
    ELSE c

toLowerCase(s) == [i \in 1..Len(s) |-> LowerChar(s[i])]

\* s[i..] for 1 <= i <= Len(s)+1
From(s, i) == SubSeq(s, i, Len(s))

\* ------------------------------------------------------ camelToKebabCase

\* Index of the last character of the run of characters of `class` that
\* starts at i (s[i] is in class).
RECURSIVE RunEnd(_, _, _)
RunEnd(s, i, class) ==
  IF i + 1 <= Len(s) /\ s[i + 1] \in class THEN RunEnd(s, i + 1, class) ELSE i

\* .replace(/\s+/g, '-')
RECURSIVE ReplaceWhitespace(_)
ReplaceWhitespace(s) ==
  IF s = <<>> THEN <<>>
  ELSE IF s[1] \in Space
    THEN <<"-">> \o ReplaceWhitespace(From(s, RunEnd(s, 1, Space) + 1))
    ELSE <<s[1]>> \o ReplaceWhitespace(Tail(s))

\* camelToKebabCase's second pass without its lookahead: a hyphen before every
\* digit run, whatever follows it.
RECURSIVE HyphenBeforeEveryDigitRun(_)
HyphenBeforeEveryDigitRun(s) ==
  IF s = <<>> THEN <<>>
  ELSE IF s[1] \in Digit
    THEN LET j == RunEnd(s, 1, Digit)
         IN <<"-">> \o SubSeq(s, 1, j) \o HyphenBeforeEveryDigitRun(From(s, j + 1))
    ELSE <<s[1]>> \o HyphenBeforeEveryDigitRun(Tail(s))

\* .replace(/(\d+)(?=[a-zA-Z])/g, '-$1'): at each position the longest digit
\* run is tried; a shorter one is followed by a digit, so it never matches.
RECURSIVE HyphenBeforeDigits(_)
HyphenBeforeDigits(s) ==
  IF s = <<>> THEN <<>>
  ELSE IF s[1] \in Digit
    THEN LET j == RunEnd(s, 1, Digit)
         IN IF j + 1 <= Len(s) /\ s[j + 1] \in Letter
              THEN <<"-">> \o SubSeq(s, 1, j) \o HyphenBeforeDigits(From(s, j + 1))
              ELSE <<s[1]>> \o HyphenBeforeDigits(Tail(s))
    ELSE <<s[1]>> \o HyphenBeforeDigits(Tail(s))

\* .replace(/([a-z0-9])([A-Z])/g, '$1-$2')
RECURSIVE HyphenBeforeUpper(_)
HyphenBeforeUpper(s) ==
  IF s = <<>> THEN <<>>
  ELSE IF Len(s) >= 2 /\ s[1] \in (Lower \cup Digit) /\ s[2] \in Upper
    THEN <<s[1], "-", s[2]>> \o HyphenBeforeUpper(From(s, 3))
    ELSE <<s[1]>> \o HyphenBeforeUpper(Tail(s))

camelToKebabCase(s) ==
  toLowerCase(HyphenBeforeUpper(HyphenBeforeDigits(ReplaceWhitespace(s))))

\* ------------------------------------------------------------ the heap

\* A property whose value is a string.
StrProp(key, s) == [key |-> key, t |-> "str", s |-> s, ref |-> 0]
\* A property whose value is the object (or array) `ref`.
RefProp(key, ref) == [key |-> key, t |-> "ref", s |-> <<>>, ref |-> ref]
\* {} (or [] when arr)
EmptyObject(arr) == [arr |-> arr, ents |-> <<>>]

\* Record<string, string> with nothing in it
EmptyRecord == [k \in {} |-> <<>>]

\* rec[key] = value
Put(rec, key, value) ==
  [k \in DOMAIN rec \cup {key} |-> IF k = key THEN value ELSE rec[k]]

HasKey(h, id, key) == \E j \in 1..Len(h[id].ents) : h[id].ents[j].key = key

\* h[id][prop.key] = prop.value: an own property keeps its place in the
\* enumeration order, a new one is enumerated last.
SetProp(h, id, prop) ==
  LET ents == h[id].ents
  IN [h EXCEPT ![id].ents =
        IF HasKey(h, id, prop.key)
          THEN [j \in 1..Len(ents) |-> IF ents[j].key = prop.key THEN prop ELSE ents[j]]
          ELSE Append(ents, prop)]

\* ------------------------------------------------------- toCSSVariables

\* options?.x || dflt, for a string option x
OrDefault(opt, dflt) == IF opt.given /\ opt.v # <<>> THEN opt.v ELSE dflt

\* `--${fullKey}`
DeclarationKey(fullKey) == <<"-", "-">> \o fullKey

\* VarReference that never includes the fallback.
VarReferenceNoFallback(fullKey, includeFallback, value) ==
  <<"v", "a", "r", "(", "-", "-">> \o fullKey \o <<")">>

\* `var(--${fullKey}${includeFallback ? `, ${subObj[key]}` : ''})`
VarReference(fullKey, includeFallback, value) ==
  <<"v", "a", "r", "(", "-", "-">> \o fullKey
    \o (IF includeFallback THEN <<",", " ">> \o value ELSE <<>>) \o <<")">>

\* cssFullKey that extends the name for a root key too.
cssFullKeyNoRoot(isRootKey, currentPrefix, kebabKey) ==
  currentPrefix \o (IF currentPrefix # <<>> THEN <<"-">> ELSE <<>>) \o kebabKey

\* isRootKey ? currentPrefix : `${currentPrefix}${currentPrefix ? '-' : ''}${kebabKey}`
cssFullKey(isRootKey, currentPrefix, kebabKey) ==
  IF isRootKey THEN currentPrefix
  ELSE currentPrefix \o (IF currentPrefix # <<>> THEN <<"-">> ELSE <<>>) \o kebabKey

\* currentPrefix ? fullKey : kebabKey
cssNextPrefix(currentPrefix, fullKey, kebabKey) ==
  IF currentPrefix # <<>> THEN fullKey ELSE kebabKey

\* cssDeclare that keeps the entry a name already has.
cssDeclareKeepFirst(decl, fullKey, value) ==
  IF DeclarationKey(fullKey) \in DOMAIN decl THEN decl
  ELSE Put(decl, DeclarationKey(fullKey), value)

\* declaration[`--${fullKey}`] = subObj[key]
cssDeclare(decl, fullKey, value) == Put(decl, DeclarationKey(fullKey), value)

\* cssNewChild that files the new object under the canonicalised key.
cssNewChildKebab(h, parentObj, key) ==
  SetProp(Append(h, EmptyObject(FALSE)), parentObj,
          RefProp(camelToKebabCase(key), Len(h) + 1))

\* parentObj[key] = {}: a new object, whose identity is the next free one.
cssNewChild(h, parentObj, key) ==
  SetProp(Append(h, EmptyObject(FALSE)), parentObj, RefProp(key, Len(h) + 1))

\* The loop of processObject from the i-th enumerated key of subObj on.
\* st = [heap, declaration]; o = the resolved options.
RECURSIVE cssProcessObject(_, _, _, _, _, _)
cssProcessObject(st, o, subObj, i, currentPrefix, parentObj) ==
  IF i > Len(st.heap[subObj].ents) THEN st
  ELSE
    LET e == st.heap[subObj].ents[i]
        key == e.key
        kebabKey == camelToKebabCase(key)
        isRootKey == key \in o.rootKeys
        fullKey == cssFullKey(isRootKey, currentPrefix, kebabKey)
    IN IF e.t = "str"
         THEN cssProcessObject(
                [heap |-> SetProp(st.heap, parentObj,
                                  StrProp(key, VarReference(fullKey, o.includeFallback, e.s))),
                 declaration |-> cssDeclare(st.declaration, fullKey, e.s)],
                o, subObj, i + 1, currentPrefix, parentObj)
         ELSE
           LET h1 == cssNewChild(st.heap, parentObj, key)
               child == Len(st.heap) + 1
               st2 == cssProcessObject([heap |-> h1, declaration |-> st.declaration],
                                       o, e.ref, 1,
                                       cssNextPrefix(currentPrefix, fullKey, kebabKey),
                                       child)
           IN cssProcessObject(st2, o, subObj, i + 1, currentPrefix, parentObj)

\* toCSSVariables with `variables = obj` in place of `variables = {}`: the
\* references are written into the tree that was passed.
toCSSVariablesInPlace(h, o, opts) ==
  LET resolved == [prefix |-> OrDefault(opts.prefix, <<>>),
                   includeFallback |-> opts.includeFallback,
                   rootKeys |-> opts.rootKeys]
      st == cssProcessObject([heap |-> h, declaration |-> EmptyRecord],
                             resolved, o, 1, resolved.prefix, o)
  IN [heap |-> st.heap, declaration |-> st.declaration, variables |-> o, raw |-> o]

\* toCSSVariables(obj, options) on heap h: the heap after the call and the
\* three fields of the object it returns.
toCSSVariables(h, o, opts) ==
  LET resolved == [prefix |-> OrDefault(opts.prefix, <<>>),
                   includeFallback |-> opts.includeFallback,
                   rootKeys |-> opts.rootKeys]
      vroot == Len(h) + 1
      st == cssProcessObject([heap |-> Append(h, EmptyObject(FALSE)),
                              declaration |-> EmptyRecord],
                             resolved, o, 1, resolved.prefix, vroot)
  IN [heap |-> st.heap, declaration |-> st.declaration, variables |-> vroot, raw |-> o]

\* ------------------------------------------------------ flattenVariables

\* currentPrefix ? (isRootKey ? currentPrefix : `${currentPrefix}${separator}${key}`) : key
flatFullKey(isRootKey, currentPrefix, separator, key) ==
  IF currentPrefix # <<>>
    THEN IF isRootKey THEN currentPrefix ELSE currentPrefix \o separator \o key
    ELSE key

\* flattened[`${prefix}${fullKey}`] = value
flatEmit(flat, prefix, fullKey, value) == Put(flat, prefix \o fullKey, value)

\* IsPlainObject without `!(value instanceof Array)`.
IsObject(h, e) == e.t = "ref"

\* typeof value === 'object' && value !== null && !(value instanceof Array)
IsPlainObject(h, e) == e.t = "ref" /\ ~h[e.ref].arr

\* The loop of processObject from the i-th enumerated key of subObj on.
RECURSIVE flatProcessObject(_, _, _, _, _, _)
flatProcessObject(flat, h, o, subObj, i, currentPrefix) ==
  IF i > Len(h[subObj].ents) THEN flat
  ELSE
    LET e == h[subObj].ents[i]
        key == e.key
        isRootKey == key \in o.rootKeys
        fullKey == flatFullKey(isRootKey, currentPrefix, o.separator, key)
        flat1 == IF e.t = "str" THEN flatEmit(flat, o.prefix, fullKey, e.s)
                 ELSE IF IsPlainObject(h, e)
                   THEN flatProcessObject(flat, h, o, e.ref, 1, fullKey)
                   ELSE flat
    IN flatProcessObject(flat1, h, o, subObj, i + 1, currentPrefix)

\* const separator = options?.separator || '-'
flatSeparator(opts) == OrDefault(opts.separator, <<"-">>)

flattenVariables(h, o, opts) ==
  LET resolved == [separator |-> flatSeparator(opts),
                   prefix |-> OrDefault(opts.prefix, <<>>),
                   rootKeys |-> opts.rootKeys]
  IN flatProcessObject(EmptyRecord, h, resolved, o, 1, <<>>)

\* ------------------------------------------------------------ the inputs

\* An object literal the caller writes: a sequence of properties, each a
\* string, a nested literal (t = "obj") or an array literal (t = "arr").
LitStr(key, s) == [key |-> key, t |-> "str", s |-> s, sub |-> <<>>]
LitSub(key, t, sub) == [key |-> key, t |-> t, s |-> <<>>, sub |-> sub]

LitKeys(lit) == {lit[i].key : i \in 1..Len(lit)}

\* The literals with exactly n properties (at all depths together, an array
\* counting as one), keys from K and distinct within one object, string
\* values from V, arrays from A.
RECURSIVE Literals(_, _, _, _)
Literals(K, V, A, n) ==
  IF n = 0 THEN {<<>>}
  ELSE
    LET rest == Literals(K, V, A, n - 1)
    IN {<<LitStr(x[1], x[2])>> \o x[3] :
          x \in {y \in K \X V \X rest : y[1] \notin LitKeys(y[3])}}
       \cup
       {<<LitSub(x[1], "arr", x[2])>> \o x[3] :
          x \in {y \in K \X A \X rest : y[1] \notin LitKeys(y[3])}}
       \cup
       UNION {
         {<<LitSub(x[1], "obj", x[2])>> \o x[3] :
            x \in {y \in K \X Literals(K, V, A, j) \X Literals(K, V, A, n - 1 - j) :
                     y[1] \notin LitKeys(y[3])}}
         : j \in 0..(n - 1)}

LiteralsUpTo(K, V, A, n) == UNION {Literals(K, V, A, m) : m \in 0..n}

\* Evaluating a literal allocates its objects: the object itself first, then
\* its nested literals in order.
RECURSIVE AllocProps(_, _, _, _)
AllocProps(h, id, lit, i) ==
  IF i > Len(lit) THEN h
  ELSE
    LET e == lit[i]
    IN IF e.t = "str"
         THEN AllocProps(SetProp(h, id, StrProp(e.key, e.s)), id, lit, i + 1)
         ELSE
           LET child == Len(h) + 1
               h1 == AllocProps(Append(h, EmptyObject(e.t = "arr")), child, e.sub, 1)
           IN AllocProps(SetProp(h1, id, RefProp(e.key, child)), id, lit, i + 1)

\* The heap that holds the literal alone; the literal's object is 1.
HeapOf(lit) == AllocProps(<<EmptyObject(FALSE)>>, 1, lit, 1)

\* An option that was not passed, and one that was.
Absent == [given |-> FALSE, v |-> <<>>]
Given(v) == [given |-> TRUE, v |-> v]

\* The strings of at most n characters of the set C.
RECURSIVE StringsUpTo(_, _)
StringsUpTo(C, n) ==
  IF n = 0 THEN {<<>>}
  ELSE LET shorter == StringsUpTo(C, n - 1)
       IN shorter \cup {<<c>> \o t : c \in C, t \in {u \in shorter : Len(u) = n - 1}}

\* Identifiers for camelToKebabCase: a letter of each case, a digit, a
\* hyphen and a blank.
CaseChars == {"a", "B", "2", "-", " "}

\* Leaf values
Values == {<<"x">>, <<"y">>}

\* Keys for toCSSVariables, a tree taking its keys from one of two sets: a
\* plain key, a root key and the empty key; or a camel-cased key, the kebab
\* form of that key and a root key.
CssKeySets == {{<<"a">>, <<"D">>, <<>>}, {<<"a", "B">>, <<"a", "-", "b">>, <<"D">>}}
CssRootKeys == {{}, {<<"D">>}}
CssPrefixes == {Absent, Given(<<"p">>)}

\* Keys for flattenVariables; the array ['x'].
FlatKeys == {<<"a">>, <<"D">>, <<>>}
FlatRootKeys == {{}, {<<"D">>}}
FlatPrefixes == {Absent, Given(<<"p">>)}
FlatSeparators == {Absent, Given(<<>>), Given(<<"_">>)}
FlatArrays == {<<LitStr(<<"0">>, <<"x">>)>>}

\* Keys that camelToKebabCase leaves as they are, for the two functions together.
BothKeys == {<<"a">>, <<"b">>, <<"d">>}
BothRootKeys == {{}, {<<"d">>}}

NoOptions == [prefix |-> Absent, includeFallback |-> FALSE, rootKeys |-> {},
              separator |-> Absent]

\* ---------------------------------------------------------- the machine

Idle ==
  /\ kebab = <<>>
  /\ declaration = EmptyRecord
  /\ variables = 0
  /\ raw = 0
  /\ flattened = EmptyRecord
  /\ done = {}

InitCase ==
  /\ str \in StringsUpTo(CaseChars, MaxLen)
  /\ heap = <<EmptyObject(FALSE)>>
  /\ obj = 1
  /\ cssOptions = NoOptions
  /\ flatOptions = NoOptions
  /\ Idle

InitCss ==
  /\ str = <<>>
  /\ \E K \in CssKeySets :
       \E lit \in LiteralsUpTo(K, Values, {}, MaxProps) : heap = HeapOf(lit)
  /\ obj = 1
  /\ cssOptions \in [prefix : CssPrefixes, includeFallback : BOOLEAN,
                     rootKeys : CssRootKeys, separator : {Absent}]
  /\ flatOptions = NoOptions
  /\ Idle

InitFlat ==
  /\ str = <<>>
  /\ \E lit \in LiteralsUpTo(FlatKeys, Values, FlatArrays, MaxFlatProps) : heap = HeapOf(lit)
  /\ obj = 1
  /\ cssOptions = NoOptions
  /\ flatOptions \in [prefix : FlatPrefixes, includeFallback : {FALSE},
                      rootKeys : FlatRootKeys, separator : FlatSeparators]
  /\ Idle

InitBoth ==
  /\ str = <<>>
  /\ \E lit \in LiteralsUpTo(BothKeys, Values, {}, MaxBothProps) : heap = HeapOf(lit)
  /\ obj = 1
  /\ \E rk \in BothRootKeys :
       /\ cssOptions = [NoOptions EXCEPT !.rootKeys = rk]
       /\ flatOptions = [NoOptions EXCEPT !.rootKeys = rk]
  /\ Idle

\* kebab = camelToKebabCase(str)
CallCamelToKebabCase ==
  /\ "camelToKebabCase" \notin done
  /\ kebab' = camelToKebabCase(str)
  /\ done' = done \cup {"camelToKebabCase"}
  /\ UNCHANGED <<heap, obj, cssOptions, flatOptions, str, declaration, variables, raw,
                 flattened>>

\* { declaration, variables, raw } = toCSSVariables(obj, cssOptions)
CallToCSSVariables ==
  /\ "toCSSVariables" \notin done
  /\ LET r == toCSSVariables(heap, obj, cssOptions)
     IN /\ heap' = r.heap
        /\ declaration' = r.declaration
        /\ variables' = r.variables
        /\ raw' = r.raw
  /\ done' = done \cup {"toCSSVariables"}
  /\ UNCHANGED <<obj, cssOptions, flatOptions, str, kebab, flattened>>

\* flattened = flattenVariables(obj, flatOptions)
CallFlattenVariables ==
  /\ "flattenVariables" \notin done
  /\ flattened' = flattenVariables(heap, obj, flatOptions)
  /\ done' = done \cup {"flattenVariables"}
  /\ UNCHANGED <<heap, obj, cssOptions, flatOptions, str, kebab, declaration, variables,
                 raw>>

NextCase == CallCamelToKebabCase
NextCss == CallToCSSVariables
NextFlat == CallFlattenVariables
NextBoth == CallToCSSVariables \/ CallFlattenVariables

SpecCase == InitCase /\ [][NextCase]_vars
SpecCss == InitCss /\ [][NextCss]_vars
SpecFlat == InitFlat /\ [][NextFlat]_vars
SpecBoth == InitBoth /\ [][NextBoth]_vars

\* ------------------------------------------------- reading the results

\* The string leaves below object id in depth-first, key-enumeration order,
\* each with its path (the keys from the root) and its value.  With
\* plainOnly, arrays are not entered.
RECURSIVE Leaves(_, _, _, _, _)
Leaves(h, id, i, path, plainOnly) ==
  IF i > Len(h[id].ents) THEN <<>>
  ELSE
    LET e == h[id].ents[i]
        here == IF e.t = "str" THEN <<[path |-> Append(path, e.key), value |-> e.s]>>
                ELSE IF plainOnly /\ h[e.ref].arr THEN <<>>
                ELSE Leaves(h, e.ref, 1, Append(path, e.key), plainOnly)
    IN here \o Leaves(h, id, i + 1, path, plainOnly)

\* The property at `path` below object id: <<property>>, or <<>> when there is none.
RECURSIVE Lookup(_, _, _)
Lookup(h, id, path) ==
  IF path = <<>> \/ id \notin 1..Len(h) THEN <<>>
  ELSE
    LET hits == SelectSeq(h[id].ents, LAMBDA e : e.key = path[1])
    IN IF hits = <<>> THEN <<>>
       ELSE IF Len(path) = 1 THEN <<hits[1]>>
       ELSE IF hits[1].t = "ref" THEN Lookup(h, hits[1].ref, Tail(path))
       ELSE <<>>

\* The objects reachable from object id, id included.
RECURSIVE Reachable(_, _)
Reachable(h, id) ==
  IF id \notin 1..Len(h) THEN {}
  ELSE {id} \cup UNION {Reachable(h, h[id].ents[j].ref) :
                          j \in {x \in 1..Len(h[id].ents) : h[id].ents[x].t = "ref"}}

\* The two objects have the same keys, a string where the other has a string
\* and an object of the same shape where the other has an object.
RECURSIVE SameShape(_, _, _)
SameShape(h, a, b) ==
  /\ a \in 1..Len(h)
  /\ b \in 1..Len(h)
  /\ {h[a].ents[j].key : j \in 1..Len(h[a].ents)} = {h[b].ents[j].key : j \in 1..Len(h[b].ents)}
  /\ Len(h[a].ents) = Len(h[b].ents)
  /\ \A j \in 1..Len(h[a].ents) :
       LET e == h[a].ents[j]
           hit == Lookup(h, b, <<e.key>>)
       IN /\ hit # <<>>
          /\ hit[1].t = e.t
          /\ e.t = "ref" => SameShape(h, e.ref, hit[1].ref)

VarOpen == <<"v", "a", "r", "(", "-", "-">>

\* The name n for which the reference at the leaf's path in the tree vroot
\* reads var(--n) (withFallback false) or var(--n, value): <<n>>, or <<>>
\* when the tree holds no such reference there.
RefName(h, vroot, leaf, withFallback) ==
  LET hit == Lookup(h, vroot, leaf.path)
      close == (IF withFallback THEN <<",", " ">> \o leaf.value ELSE <<>>) \o <<")">>
  IN IF hit = <<>> THEN <<>>
     ELSE IF hit[1].t # "str" THEN <<>>
     ELSE LET r == hit[1].s
          IN IF /\ Len(r) >= Len(VarOpen) + Len(close)
                /\ SubSeq(r, 1, Len(VarOpen)) = VarOpen
                /\ SubSeq(r, Len(r) - Len(close) + 1, Len(r)) = close
               THEN <<SubSeq(r, Len(VarOpen) + 1, Len(r) - Len(close))>>
               ELSE <<>>

Returned(f) == f \in done

\* The leaves of the input of toCSSVariables, and the name each reference gives.
CssLeaves == Leaves(heap, obj, 1, <<>>, FALSE)
CssNames ==
  LET ls == CssLeaves
  IN [k \in 1..Len(ls) |-> RefName(heap, variables, ls[k], cssOptions.includeFallback)]

\* The value of the last of the leaves whose key (keys[k]) is n.
LastValue(ls, keys, n) ==
  ls[CHOOSE j \in 1..Len(ls) :
       /\ keys[j] = n
       /\ \A m \in (j + 1)..Len(ls) : keys[m] # n].value

CssPrefix == IF cssOptions.prefix.given THEN cssOptions.prefix.v ELSE <<>>

\* ------------------------------------------------------------------- C1

\* C1 as stated: for every leaf path p with value v whose reference names n,
\* declaration[n] = v, and the leaf at p in variables is var(--n) or
\* var(--n, v).
C1_DeclarationKeyedByName ==
  Returned("toCSSVariables") =>
    LET ls == CssLeaves
        ns == CssNames
    IN \A k \in 1..Len(ls) :
         /\ ns[k] # <<>>
         /\ ns[k][1] \in DOMAIN declaration
         /\ declaration[ns[k][1]] = ls[k].value

\* C1 as amended: for every leaf path p with value v, the leaf at p in
\* variables is var(--n) or var(--n, v) for a name n, and declaration['--' + n]
\* is the value of the last leaf, in traversal order, whose reference names n
\* (v itself when no later leaf has that name).
C1_DeclarationMatchesReferences ==
  Returned("toCSSVariables") =>
    LET ls == CssLeaves
        ns == CssNames
    IN \A k \in 1..Len(ls) :
         /\ ns[k] # <<>>
         /\ (<<"-", "-">> \o ns[k][1]) \in DOMAIN declaration
         /\ declaration[<<"-", "-">> \o ns[k][1]] = LastValue(ls, ns, ns[k])

\* toCSSVariables has returned for a tree with a nested leaf and a top-level
\* leaf, with the fallback included.
C1_Witness ==
  /\ Returned("toCSSVariables")
  /\ cssOptions.includeFallback
  /\ \E k \in 1..Len(CssLeaves) : Len(CssLeaves[k].path) >= 2
  /\ \E k \in 1..Len(CssLeaves) : Len(CssLeaves[k].path) = 1
  /\ DOMAIN declaration # {}

\* ------------------------------------------------------------------- C2

\* C2: the variables tree has, at every depth, the keys of the input, a
\* string where the input has a string and a nested object where the input
\* has one (empty subtrees included).
C2_ShapePreserved ==
  Returned("toCSSVariables") => SameShape(heap, obj, variables)

\* toCSSVariables has returned for a tree that holds a leaf, a non-empty
\* subtree and an empty subtree.
C2_Witness ==
  /\ Returned("toCSSVariables")
  /\ CssLeaves # <<>>
  /\ \E id \in Reachable(heap, obj) : id # obj /\ heap[id].ents = <<>>
  /\ \E id \in Reachable(heap, obj) : id # obj /\ heap[id].ents # <<>>

\* ------------------------------------------------------------------- C3

\* a-b-c for <<a, b, c>>
RECURSIVE JoinWith(_, _)
JoinWith(segs, sep) ==
  IF segs = <<>> THEN <<>>
  ELSE IF Len(segs) = 1 THEN segs[1]
  ELSE segs[1] \o sep \o JoinWith(Tail(segs), sep)

\* The prefix (when there is one) and the canonicalised keys of the path,
\* joined by '-'.
CssJoinedName(path) ==
  JoinWith((IF CssPrefix = <<>> THEN <<>> ELSE <<CssPrefix>>)
             \o [i \in 1..Len(path) |-> camelToKebabCase(path[i])], <<"-">>)

\* The same, except that a key met while the name so far is empty is taken
\* bare, with no '-' before it.
RECURSIVE CssAccumulatedName(_, _)
CssAccumulatedName(acc, path) ==
  IF path = <<>> THEN acc
  ELSE CssAccumulatedName(
         IF acc = <<>> THEN camelToKebabCase(path[1])
         ELSE acc \o <<"-">> \o camelToKebabCase(path[1]),
         Tail(path))

Front(path) == SubSeq(path, 1, Len(path) - 1)
Last(path) == path[Len(path)]

\* The leaf sits in a subtree reached through non-root keys.
UnderNonRootKeys(leaf) ==
  /\ Len(leaf.path) >= 2
  /\ \A i \in 1..(Len(leaf.path) - 1) : leaf.path[i] \notin cssOptions.rootKeys

\* Another leaf of the same object has a root key.
HasRootKeySibling(ls, leaf) ==
  \E m \in 1..Len(ls) :
    /\ Len(ls[m].path) = Len(leaf.path)
    /\ Front(ls[m].path) = Front(leaf.path)
    /\ Last(ls[m].path) \in cssOptions.rootKeys

\* C3 as stated: a root-key leaf inside a subtree reached through non-root
\* keys is named as its parent subtree (prefix and canonicalised parent path
\* joined by '-'), and each sibling leaf whose key is no root key is named
\* parent name + '-' + its canonicalised key.
C3_RootKeyCollapsesJoined ==
  Returned("toCSSVariables") =>
    LET ls == CssLeaves
        ns == CssNames
    IN \A k \in 1..Len(ls) :
         (UnderNonRootKeys(ls[k]) /\ HasRootKeySibling(ls, ls[k])) =>
           LET parent == CssJoinedName(Front(ls[k].path))
               key == Last(ls[k].path)
           IN ns[k] = <<IF key \in cssOptions.rootKeys THEN parent
                        ELSE parent \o <<"-">> \o camelToKebabCase(key)>>

\* C3 as amended: the name of the parent subtree is the prefix followed by
\* the canonicalised parent keys, each joined by '-' unless the name so far
\* is empty; a root-key leaf inside a subtree reached through non-root keys
\* gets exactly that name, and each sibling leaf whose key is no root key
\* gets parent name + '-' + its canonicalised key, or its canonicalised key
\* alone when the parent name is empty.
C3_RootKeyCollapses ==
  Returned("toCSSVariables") =>
    LET ls == CssLeaves
        ns == CssNames
    IN \A k \in 1..Len(ls) :
         (UnderNonRootKeys(ls[k]) /\ HasRootKeySibling(ls, ls[k])) =>
           LET parent == CssAccumulatedName(CssPrefix, Front(ls[k].path))
               key == Last(ls[k].path)
           IN ns[k] = <<IF key \in cssOptions.rootKeys THEN parent
                        ELSE CssAccumulatedName(parent, <<key>>)>>

\* toCSSVariables has returned for a tree in which a root-key leaf and a
\* leaf with another key share a parent reached through a non-root key, the
\* parent's name being non-empty.
C3_Witness ==
  /\ Returned("toCSSVariables")
  /\ \E k, m \in 1..Len(CssLeaves) :
       /\ UnderNonRootKeys(CssLeaves[k])
       /\ Front(CssLeaves[m].path) = Front(CssLeaves[k].path)
       /\ Last(CssLeaves[k].path) \in cssOptions.rootKeys
       /\ Last(CssLeaves[m].path) \notin cssOptions.rootKeys
       /\ CssAccumulatedName(CssPrefix, Front(CssLeaves[k].path)) # <<>>
       /\ CssNames[k] # CssNames[m]

\* ------------------------------------------------------------------- C6

\* The generated name of a leaf path: each key extends the name so far with
\* '-' and its canonical form (bare while the name so far is empty), a root
\* key leaves it as it is; below a key met while the name was empty, the
\* name restarts from that key's canonical form.
RECURSIVE CssGeneratedName(_, _)
CssGeneratedName(acc, path) ==
  LET kk == camelToKebabCase(path[1])
      full == IF path[1] \in cssOptions.rootKeys THEN acc
              ELSE IF acc = <<>> THEN kk
              ELSE acc \o <<"-">> \o kk
  IN IF Len(path) = 1 THEN full
     ELSE CssGeneratedName(IF acc = <<>> THEN kk ELSE full, Tail(path))

\* C6: when two distinct leaf paths produce the same generated name,
\* declaration holds one entry for it, with the value of the leaf visited
\* later, and each of the two leaves has its own reference in variables.
C6_LastLeafWins ==
  Returned("toCSSVariables") =>
    LET ls == CssLeaves
        ns == CssNames
        gen == [k \in 1..Len(ls) |-> CssGeneratedName(CssPrefix, ls[k].path)]
    IN \A i, j \in 1..Len(ls) :
         (i < j /\ gen[i] = gen[j]) =>
           /\ ns[i] = <<gen[i]>>
           /\ ns[j] = <<gen[j]>>
           /\ (<<"-", "-">> \o gen[i]) \in DOMAIN declaration
           /\ declaration[<<"-", "-">> \o gen[i]] = LastValue(ls, gen, gen[i])
           /\ Cardinality(DOMAIN declaration)
                = Cardinality({gen[k] : k \in 1..Len(ls)})

\* toCSSVariables has returned for a tree in which the sibling keys aB and
\* a-b hold different values.
C6_Witness ==
  /\ Returned("toCSSVariables")
  /\ \E i, j \in 1..Len(CssLeaves) :
       /\ i < j
       /\ Front(CssLeaves[i].path) = Front(CssLeaves[j].path)
       /\ Last(CssLeaves[i].path) = <<"a", "B">>
       /\ Last(CssLeaves[j].path) = <<"a", "-", "b">>
       /\ CssLeaves[i].value # CssLeaves[j].value
       /\ CssNames[i] = CssNames[j]

\* ------------------------------------------------------------------- C8

\* C8: the call returns the very object it was passed as raw, leaves every
\* object that existed before the call as it was, and builds variables from
\* objects that did not exist before the call.
C8_InputReadOnly ==
  [][("toCSSVariables" \notin done /\ "toCSSVariables" \in done') =>
       /\ raw' = obj
       /\ Len(heap') >= Len(heap)
       /\ \A id \in 1..Len(heap) : heap'[id] = heap[id]
       /\ Reachable(heap', variables') \cap (1..Len(heap)) = {}
       /\ variables' \in 1..Len(heap')]_vars

\* toCSSVariables has returned for a tree with a nested subtree that holds a
\* leaf, and variables has a nested object of its own.
C8_Witness ==
  /\ Returned("toCSSVariables")
  /\ raw = obj
  /\ \E k \in 1..Len(CssLeaves) : Len(CssLeaves[k].path) >= 2
  /\ Cardinality(Reachable(heap, variables)) >= 2

\* ------------------------------------------------------------------- C4

\* The string leaves of the input of flattenVariables that are reached
\* through objects that are no arrays.
FlatLeaves == Leaves(heap, obj, 1, <<>>, TRUE)

FlatPrefix == IF flatOptions.prefix.given THEN flatOptions.prefix.v ELSE <<>>

\* The separator the caller supplied, '-' when none was supplied.
SuppliedSeparator ==
  IF flatOptions.separator.given THEN flatOptions.separator.v ELSE <<"-">>

\* The separator in effect: '-' also when the empty string was supplied.
EffectiveSeparator ==
  IF flatOptions.separator.given /\ flatOptions.separator.v # <<>>
    THEN flatOptions.separator.v
    ELSE <<"-">>

\* The keys of the path joined with sep: a key met while the joined key is
\* empty is taken as it is, a root key met later adds nothing.
RECURSIVE FlatJoinedKey(_, _, _)
FlatJoinedKey(acc, path, sep) ==
  IF path = <<>> THEN acc
  ELSE FlatJoinedKey(
         IF acc = <<>> THEN path[1]
         ELSE IF path[1] \in flatOptions.rootKeys THEN acc
         ELSE acc \o sep \o path[1],
         Tail(path), sep)

\* C4 as stated, where the caller's separator is not the empty string: every
\* string leaf reached through non-array subtrees appears exactly once:
\* result[prefix + joined path] is its value, and the result has as many
\* entries as there are such leaves.
C4_EveryLeafOnce ==
  (Returned("flattenVariables") /\ flatOptions.separator # Given(<<>>)) =>
    LET ls == FlatLeaves
        ks == [k \in 1..Len(ls) |->
                 FlatPrefix \o FlatJoinedKey(<<>>, ls[k].path, SuppliedSeparator)]
    IN /\ \A k \in 1..Len(ls) :
            /\ ks[k] \in DOMAIN flattened
            /\ flattened[ks[k]] = ls[k].value
       /\ Cardinality(DOMAIN flattened) = Len(ls)

\* C4 as amended: for every string leaf reached through non-array subtrees,
\* result[k] is the value of the last such leaf, in traversal order, whose
\* key is k, where k is the prefix followed by the key built along the path:
\* a key met while the built key is empty is taken as it is, a root key met
\* later adds nothing, any other key is appended after the separator in
\* effect ('-' when none or the empty string is supplied).  The result has
\* one entry for each distinct k and no other entry, so strings inside
\* arrays contribute none.
C4_LastLeafPerKey ==
  Returned("flattenVariables") =>
    LET ls == FlatLeaves
        ks == [k \in 1..Len(ls) |->
                 FlatPrefix \o FlatJoinedKey(<<>>, ls[k].path, EffectiveSeparator)]
    IN /\ \A k \in 1..Len(ls) :
            /\ ks[k] \in DOMAIN flattened
            /\ flattened[ks[k]] = LastValue(ls, ks, ks[k])
       /\ DOMAIN flattened = {ks[k] : k \in 1..Len(ls)}

\* flattenVariables has returned for a tree with a nested leaf under a root
\* key, a string inside an array, and a separator of the caller's.
C4_Witness ==
  /\ Returned("flattenVariables")
  /\ flatOptions.separator = Given(<<"_">>)
  /\ \E k \in 1..Len(FlatLeaves) :
       /\ Len(FlatLeaves[k].path) >= 2
       /\ Last(FlatLeaves[k].path) \in flatOptions.rootKeys
  /\ \E id \in Reachable(heap, obj) : heap[id].arr /\ heap[id].ents # <<>>
  /\ DOMAIN flattened # {}

\* ------------------------------------------------------------------- C7

\* C7: a non-root key nested under a non-empty accumulated key is joined by
\* exactly the separator the caller supplied, the empty string included;
\* '-' is used only when no separator is supplied.
C7_SuppliedSeparatorUsed ==
  Returned("flattenVariables") =>
    \A k \in 1..Len(FlatLeaves) :
      (FlatPrefix \o FlatJoinedKey(<<>>, FlatLeaves[k].path, SuppliedSeparator))
        \in DOMAIN flattened

\* ------------------------------------------------------------------- C5

\* The declaration as a mapping from names: the entry '--' + name under name.
DeclarationByName ==
  [n \in {SubSeq(k, 3, Len(k)) : k \in DOMAIN declaration} |->
     declaration[<<"-", "-">> \o n]]

\* C5: for a tree whose keys are canonical, the same rootKeys, no prefix and
\* the separator '-', the names and values of declaration are the mapping
\* flattenVariables returns.
C5_SameRootKeyCollapsing ==
  (Returned("toCSSVariables") /\ Returned("flattenVariables")) =>
    DeclarationByName = flattened

\* ------------------------------------------------------------------- C9

\* C9: a key that begins with a digit run is not hyphen-prefixed: its
\* canonical name does not begin with '-'.
C9_LeadingDigitsNotPrefixed ==
  (Returned("camelToKebabCase") /\ str # <<>> /\ str[1] \in Digit) =>
    (kebab # <<>> /\ kebab[1] # "-")

\* ------------------------------------------------------------------ C10

\* Only lowercase letters, digits and hyphens.
Canonical(s) == \A i \in 1..Len(s) : s[i] \in (Lower \cup Digit \cup {"-"})

\* No digit is immediately followed by a letter.
NoDigitBeforeLetter(s) ==
  \A i \in 1..(Len(s) - 1) : ~(s[i] \in Digit /\ s[i + 1] \in Letter)

====
